---- MODULE Spec2Model ----
(***************************************************************************)
(* Model of the Dashbot chatbot: the Flask API of app.py (/chat, /rate)    *)
(* over the interaction_log table, the administrative deletes of           *)
(* view_db.py, and the CSV -> table reconciliation of sync_csv_db.py and   *)
(* auto_sync.py with their polling loops.                                  *)
(*                                                                         *)
(* Text is a sequence of Unicode code points, so that lower(), strip()     *)
(* and the substring tests of generate_bot_reply are computed.  A table    *)
(* row is a record of its columns; a nullable column holds {} for SQL NULL *)
(* and {v} for the value v; the table is a function from its ids to rows.  *)
(* A CSV cell is what pandas hands to the row loop: NaN (an empty cell),   *)
(* a number, or a text.                                                    *)
(***************************************************************************)
EXTENDS Integers, Sequences, FiniteSets, TLC

\* Ids range over 1..MaxId: ids that a CSV may list and the cap on the ids
\* /chat may allocate.
MaxId == 2
\* Largest number of data rows of a CSV file.
MaxCsvRows == 2

\* The longest text given to the responder, in words.
MaxWords == 2

Ids == 1..MaxId

\* A nullable column: SQL NULL (Python None), or a value.
NULL == {}
Val(v) == {v}
ValueOf(c) == CHOOSE v \in c : TRUE

(***************************************************************************)
(* Text helpers: str.lower, str.strip and the "in" substring test.         *)
(***************************************************************************)

\* str.lower on one code point: A-Z, the Cyrillic capitals and IO.
LowerChar(c) ==
    IF c >= 65 /\ c <= 90 THEN c + 32
    ELSE IF c >= 1040 /\ c <= 1071 THEN c + 32
    ELSE IF c = 1025 THEN 1105
    ELSE c

Lower(s) == [i \in 1..Len(s) |-> LowerChar(s[i])]

\* str.isspace on one code point.
IsSpace(c) == c \in {9, 10, 11, 12, 13, 28, 29, 30, 31, 32, 133, 160}

\* BlankAfterStrip without the strip: "not s".
BlankAfterStrip_NoStrip(s) == s = <<>>

\* "not s.strip()": nothing is left once the white space is trimmed.
BlankAfterStrip(s) == \A i \in 1..Len(s) : IsSpace(s[i])

\* "kw in text".
Contains(text, kw) ==
    \E i \in 1..(Len(text) - Len(kw) + 1) : SubSeq(text, i, i + Len(kw) - 1) = kw

AnyIn(text, kws) == \E k \in kws : Contains(text, k)

(***************************************************************************)
(* The Intent Responder, app.py generate_bot_reply.                        *)
(***************************************************************************)

\* privet, zdravstvuy, hello, hi, dobryy den, dobryy vecher, dobroe utro (Unicode code points)
GreetingKeywords ==
    {<<1087, 1088, 1080, 1074, 1077, 1090>>,
     <<1079, 1076, 1088, 1072, 1074, 1089, 1090, 1074, 1091, 1081>>,
     <<104, 101, 108, 108, 111>>,
     <<104, 105>>,
     <<1076, 1086, 1073, 1088, 1099, 1081, 32, 1076, 1077, 1085, 1100>>,
     <<1076, 1086, 1073, 1088, 1099, 1081, 32, 1074, 1077, 1095, 1077, 1088>>,
     <<1076, 1086, 1073, 1088, 1086, 1077, 32, 1091, 1090, 1088, 1086>>}

\* vremya, kotoryy chas (Unicode code points)
TimeKeywords ==
    {<<1074, 1088, 1077, 1084, 1103>>,
     <<1082, 1086, 1090, 1086, 1088, 1099, 1081, 32, 1095, 1072, 1089>>}

\* data, kakoe chislo, kakoy den, chislo (Unicode code points)
DateKeywords ==
    {<<1076, 1072, 1090, 1072>>,
     <<1082, 1072, 1082, 1086, 1077, 32, 1095, 1080, 1089, 1083, 1086>>,
     <<1082, 1072, 1082, 1086, 1081, 32, 1076, 1077, 1085, 1100>>,
     <<1095, 1080, 1089, 1083, 1086>>}

\* pogoda, dozhd, solntse (Unicode code points)
WeatherKeywords ==
    {<<1087, 1086, 1075, 1086, 1076, 1072>>,
     <<1076, 1086, 1078, 1076, 1100>>,
     <<1089, 1086, 1083, 1085, 1094, 1077>>}

\* pomoshch, help, chto ty umeesh, funktsii (Unicode code points)
HelpKeywords ==
    {<<1087, 1086, 1084, 1086, 1097, 1100>>,
     <<104, 101, 108, 112>>,
     <<1095, 1090, 1086, 32, 1090, 1099, 32, 1091, 1084, 1077, 1077, 1096, 1100>>,
     <<1092, 1091, 1085, 1082, 1094, 1080, 1080>>}

\* spasibo, blagodaryu, thanks, thank you (Unicode code points)
ThanksKeywords ==
    {<<1089, 1087, 1072, 1089, 1080, 1073, 1086>>,
     <<1073, 1083, 1072, 1075, 1086, 1076, 1072, 1088, 1102>>,
     <<116, 104, 97, 110, 107, 115>>,
     <<116, 104, 97, 110, 107, 32, 121, 111, 117>>}

\* poka, do svidaniya, bye, goodbye, uvidimsya (Unicode code points)
ByeKeywords ==
    {<<1087, 1086, 1082, 1072>>,
     <<1076, 1086, 32, 1089, 1074, 1080, 1076, 1072, 1085, 1080, 1103>>,
     <<98, 121, 101>>,
     <<103, 111, 111, 100, 98, 121, 101>>,
     <<1091, 1074, 1080, 1076, 1080, 1084, 1089, 1103>>}

\* kto ty, chto ty, kak tebya zovut, imya (Unicode code points)
BotKeywords ==
    {<<1082, 1090, 1086, 32, 1090, 1099>>,
     <<1095, 1090, 1086, 32, 1090, 1099>>,
     <<1082, 1072, 1082, 32, 1090, 1077, 1073, 1103, 32, 1079, 1086, 1074, 1091, 1090>>,
     <<1080, 1084, 1103>>}

\* vozrast, skolko tebe (Unicode code points)
AgeKeywords ==
    {<<1074, 1086, 1079, 1088, 1072, 1089, 1090>>,
     <<1089, 1082, 1086, 1083, 1100, 1082, 1086, 32, 1090, 1077, 1073, 1077>>}

\* CategoryOf with the chain walked from its far end: the last matching
\* category wins.
CategoryOf_LastMatch(text) ==
    IF AnyIn(text, AgeKeywords) THEN "age"
    ELSE IF AnyIn(text, BotKeywords) THEN "bot"
    ELSE IF AnyIn(text, ByeKeywords) THEN "bye"
    ELSE IF AnyIn(text, ThanksKeywords) THEN "thanks"
    ELSE IF AnyIn(text, HelpKeywords) THEN "help"
    ELSE IF AnyIn(text, WeatherKeywords) THEN "weather"
    ELSE IF AnyIn(text, DateKeywords) THEN "date"
    ELSE IF AnyIn(text, TimeKeywords) THEN "time"
    ELSE IF AnyIn(text, GreetingKeywords) THEN "greeting"
    ELSE "none"

\* The chain of if/elif of generate_bot_reply.  reply names the canned
\* reply, delay is the time.sleep of the branch in milliseconds.
CategoryOf(text) ==
    IF AnyIn(text, GreetingKeywords) THEN "greeting"
    ELSE IF AnyIn(text, TimeKeywords) THEN "time"
    ELSE IF AnyIn(text, DateKeywords) THEN "date"
    ELSE IF AnyIn(text, WeatherKeywords) THEN "weather"
    ELSE IF AnyIn(text, HelpKeywords) THEN "help"
    ELSE IF AnyIn(text, ThanksKeywords) THEN "thanks"
    ELSE IF AnyIn(text, ByeKeywords) THEN "bye"
    ELSE IF AnyIn(text, BotKeywords) THEN "bot"
    ELSE IF AnyIn(text, AgeKeywords) THEN "age"
    ELSE "none"

\* ReplyOf with the default branch reporting the request as resolved.
ReplyOf_DefaultResolved(cat) ==
    CASE cat = "greeting" -> [reply |-> "reply_greeting", intent |-> "greeting",      resolved |-> TRUE,  delay |-> 100]
      [] cat = "time"     -> [reply |-> "reply_time",     intent |-> "time_query",    resolved |-> TRUE,  delay |-> 200]
      [] cat = "date"     -> [reply |-> "reply_date",     intent |-> "date_query",    resolved |-> TRUE,  delay |-> 200]
      [] cat = "weather"  -> [reply |-> "reply_weather",  intent |-> "weather_query", resolved |-> FALSE, delay |-> 300]
      [] cat = "help"     -> [reply |-> "reply_help",     intent |-> "help_request",  resolved |-> TRUE,  delay |-> 150]
      [] cat = "thanks"   -> [reply |-> "reply_thanks",   intent |-> "thanks",        resolved |-> TRUE,  delay |-> 100]
      [] cat = "bye"      -> [reply |-> "reply_goodbye",  intent |-> "goodbye",       resolved |-> TRUE,  delay |-> 100]
      [] cat = "bot"      -> [reply |-> "reply_bot_name", intent |-> "bot_info",      resolved |-> TRUE,  delay |-> 150]
      [] cat = "age"      -> [reply |-> "reply_bot_age",  intent |-> "bot_info",      resolved |-> TRUE,  delay |-> 150]
      [] OTHER            -> [reply |-> "reply_unknown",  intent |-> "unknown",       resolved |-> TRUE , delay |-> 300]

\* The return statement and the time.sleep of each branch.
ReplyOf(cat) ==
    CASE cat = "greeting" -> [reply |-> "reply_greeting", intent |-> "greeting",      resolved |-> TRUE,  delay |-> 100]
      [] cat = "time"     -> [reply |-> "reply_time",     intent |-> "time_query",    resolved |-> TRUE,  delay |-> 200]
      [] cat = "date"     -> [reply |-> "reply_date",     intent |-> "date_query",    resolved |-> TRUE,  delay |-> 200]
      [] cat = "weather"  -> [reply |-> "reply_weather",  intent |-> "weather_query", resolved |-> FALSE, delay |-> 300]
      [] cat = "help"     -> [reply |-> "reply_help",     intent |-> "help_request",  resolved |-> TRUE,  delay |-> 150]
      [] cat = "thanks"   -> [reply |-> "reply_thanks",   intent |-> "thanks",        resolved |-> TRUE,  delay |-> 100]
      [] cat = "bye"      -> [reply |-> "reply_goodbye",  intent |-> "goodbye",       resolved |-> TRUE,  delay |-> 100]
      [] cat = "bot"      -> [reply |-> "reply_bot_name", intent |-> "bot_info",      resolved |-> TRUE,  delay |-> 150]
      [] cat = "age"      -> [reply |-> "reply_bot_age",  intent |-> "bot_info",      resolved |-> TRUE,  delay |-> 150]
      [] OTHER            -> [reply |-> "reply_unknown",  intent |-> "unknown",       resolved |-> FALSE, delay |-> 300]

generate_bot_reply(user_text) == ReplyOf(CategoryOf(Lower(user_text)))

(***************************************************************************)
(* State.                                                                  *)
(***************************************************************************)

VARIABLES
    store,          \* the committed rows of table interaction_log, by id
    csv,            \* the CSV file at csv_path
    last,           \* the last operation handled: its input and its result
    last_hash,      \* AutoSync.last_hash
    current_hash,   \* current_hash of start_monitoring, while it is in use
    as_pc,          \* where AutoSync.start_monitoring stands
    last_csv_hash,  \* CSVDBSync.last_csv_hash
    last_db_count,  \* CSVDBSync.last_db_count
    mc_pc,          \* where CSVDBSync.monitor_changes stands
    inflight,       \* the /chat requests being served, by worker thread
    job             \* the CSV -> table reconciliation in progress

vars == <<store, csv, last, last_hash, current_hash, as_pc, last_csv_hash, last_db_count,
          mc_pc, inflight, job>>

autoSyncVars == <<last_hash, current_hash, as_pc>>
monitorVars == <<last_csv_hash, last_db_count, mc_pc>>
concVars == <<inflight, job>>

\* The worker threads of the web server; no request in flight; no
\* reconciliation in progress.
Threads == {1, 2}
NoRequests == [t \in Threads |-> [pc |-> "idle"]]
NoJob == [pc |-> "idle"]

(***************************************************************************)
(* The table: sqlite's INTEGER PRIMARY KEY without AUTOINCREMENT.          *)
(***************************************************************************)

EmptyTable == [i \in {} |-> {}]

SetMax(S) == CHOOSE m \in S : \A x \in S : x <= m

\* The rowid sqlite gives a row inserted without an id: one more than the
\* largest id in the table, 1 for an empty table.
NextRowId(st) == IF DOMAIN st = {} THEN 1 ELSE SetMax(DOMAIN st) + 1

InsertRow(st, id, row) ==
    [i \in DOMAIN st \cup {id} |-> IF i = id THEN row ELSE st[i]]

DeleteRows(st, ids) == [i \in DOMAIN st \ ids |-> st[i]]

(***************************************************************************)
(* POST /chat, app.py chat.                                                *)
(*                                                                         *)
(* A request body is the set of keys it holds and their values.  fail      *)
(* says that db.session.commit() raises.                                   *)
(***************************************************************************)

\* "Privet" (capital P), "dozhd", one blank.
MsgPrivet == <<1055, 1088, 1080, 1074, 1077, 1090>>
MsgDozhd == <<1076, 1086, 1078, 1076, 1100>>
MsgBlank == <<32>>

ChatRequests ==
    { [keys |-> {},
       message |-> <<>>, user_id |-> "", session_id |-> "", channel |-> "", language |-> ""],
      [keys |-> {"user_id"},
       message |-> <<>>, user_id |-> "u1", session_id |-> "", channel |-> "", language |-> ""],
      [keys |-> {"message"},
       message |-> MsgBlank, user_id |-> "", session_id |-> "", channel |-> "", language |-> ""],
      [keys |-> {"message"},
       message |-> MsgPrivet, user_id |-> "", session_id |-> "", channel |-> "", language |-> ""],
      [keys |-> {"message", "user_id", "session_id", "channel", "language"},
       message |-> MsgDozhd, user_id |-> "u1", session_id |-> "s1", channel |-> "telegram",
       language |-> "en"] }

\* data.get(key, default)
Get(req, key, default) == IF key \in req.keys THEN req[key] ELSE default

\* The InteractionLog the handler builds (lines 129-151).  rating is left
\* to the column's default, NULL; timestamp to default=datetime.utcnow;
\* response_time is the elapsed time, here the responder's delay.
LogEntry(req, r) ==
    [user_id       |-> Get(req, "user_id", "anonymous"),
     session_id    |-> Get(req, "session_id", "uuid4"),
     timestamp     |-> "utcnow",
     query_text    |-> req.message,
     bot_response  |-> r.reply,
     intent        |-> Val(r.intent),
     resolved      |-> Val(IF r.resolved THEN 1 ELSE 0),
     rating        |-> NULL,
     response_time |-> Val(r.delay),
     channel       |-> Val(Get(req, "channel", "web")),
     language      |-> Val(Get(req, "language", "ru"))]

\* The missing-field and blank-message tests (lines 121-126): the error
\* the request is refused with, "" when it is accepted.
ChatValidation(req) ==
    IF req.keys = {} \/ "message" \notin req.keys THEN "missing_message"
    ELSE IF BlankAfterStrip(req.message) THEN "empty_message"
    ELSE ""

\* ChatPersist with the commit left out: nothing reaches the table.
ChatPersist_NoCommit(st, entry, fail) == st

\* ChatPersist with the rollback left out: the row stays though the
\* commit raised.
ChatPersist_NoRollback(st, entry, fail) == InsertRow(st, NextRowId(st), entry)

\* db.session.add(log_entry); db.session.commit(), and the rollback of the
\* except branch: the table afterwards.
ChatPersist(st, entry, fail) ==
    IF fail THEN st ELSE InsertRow(st, NextRowId(st), entry)

chat(req, fail) ==
    LET err == ChatValidation(req)
        r == generate_bot_reply(req.message)
    IN IF err # ""
       THEN /\ last' = [op |-> "chat", req |-> req, status |-> 400, error |-> err,
                        invoked |-> 0]
            /\ store' = store
       ELSE IF fail
       THEN /\ store' = ChatPersist(store, LogEntry(req, r), TRUE)
            /\ last' = [op |-> "chat", req |-> req, status |-> 500,
                        error |-> "server_error", invoked |-> 1, commit_failed |-> TRUE]
       ELSE /\ NextRowId(store) <= MaxId
            /\ store' = ChatPersist(store, LogEntry(req, r), FALSE)
            /\ last' = [op |-> "chat", req |-> req, status |-> 200,
                        response |-> r.reply, log_id |-> NextRowId(store),
                        intent |-> r.intent, resolved |-> r.resolved, invoked |-> 1,
                        commit_failed |-> FALSE]

Chat ==
    /\ \E req \in ChatRequests, fail \in BOOLEAN : chat(req, fail)
    /\ UNCHANGED <<csv, autoSyncVars, monitorVars, concVars>>

(***************************************************************************)
(* POST /chat served by worker threads, app.py chat.  The handler is cut   *)
(* where another request or the reconciler can come in between: before     *)
(* the commit (lines 119-151, no access to the table), at the commit (the  *)
(* INSERT and the COMMIT, one sqlite write transaction), and after it (the *)
(* response of lines 158-163 from the handler's own variables).            *)
(***************************************************************************)

\* Lines 119-151: the request is read and tested, the reply made, the
\* InteractionLog built.
ChatReceive(t) ==
    /\ inflight[t].pc = "idle"
    /\ \E req \in ChatRequests :
          LET err == ChatValidation(req)
              r == generate_bot_reply(req.message)
          IN inflight' = [inflight EXCEPT ![t] =
                 IF err # ""
                 THEN [pc |-> "done", req |-> req, status |-> 400, error |-> err]
                 ELSE [pc |-> "replied", req |-> req, r |-> r, entry |-> LogEntry(req, r)]]
    /\ UNCHANGED <<store, csv, last, autoSyncVars, monitorVars, job>>

\* NewRowId giving every row the id of the first row.
NewRowId_Same(st) == 1

\* The id the INSERT of the commit gives the row, inside sqlite's write
\* lock.
NewRowId(st) == NextRowId(st)

\* Lines 154-155, and lines 165-167 when the commit raises.  seen is
\* where the reconciliation stood when the row was committed, kept for the
\* properties.
ChatCommit(t) ==
    /\ inflight[t].pc = "replied"
    /\ \E fail \in BOOLEAN :
          IF fail
          THEN /\ store' = ChatPersist(store, inflight[t].entry, TRUE)
               /\ inflight' = [inflight EXCEPT ![t] =
                      [pc |-> "done", req |-> inflight[t].req, status |-> 500,
                       error |-> "server_error"]]
          ELSE /\ NewRowId(store) <= MaxId
               /\ store' = InsertRow(store, NewRowId(store), inflight[t].entry)
               /\ inflight' = [inflight EXCEPT ![t] =
                      [pc |-> "committed", req |-> inflight[t].req, r |-> inflight[t].r,
                       log_id |-> NewRowId(store), seen |-> job.pc]]
    /\ UNCHANGED <<csv, last, autoSyncVars, monitorVars, job>>

\* Lines 158-163: the response.
ChatRespond(t) ==
    /\ inflight[t].pc = "committed"
    /\ inflight' = [inflight EXCEPT ![t] =
           [pc |-> "done", req |-> inflight[t].req, status |-> 200,
            response |-> inflight[t].r.reply, log_id |-> inflight[t].log_id,
            intent |-> inflight[t].r.intent, resolved |-> inflight[t].r.resolved,
            seen |-> inflight[t].seen]]
    /\ UNCHANGED <<store, csv, last, autoSyncVars, monitorVars, job>>

(***************************************************************************)
(* POST /rate, app.py rate_response.                                       *)
(*                                                                         *)
(* A JSON value is its type and, for a number or a boolean, its value as   *)
(* Python's int() gives it (True is 1).                                    *)
(***************************************************************************)

JsonInt(n) == [type |-> "int", val |-> n]
JsonTrue == [type |-> "bool", val |-> 1]
JsonStr(n) == [type |-> "str", val |-> n]

RatingInputs == {JsonInt(0), JsonInt(1), JsonInt(5), JsonInt(6), JsonTrue, JsonStr(5)}

RateRequests ==
    {[keys |-> {"log_id"}, log_id |-> 1, rating |-> JsonInt(5)]}
    \cup {[keys |-> {"log_id", "rating"}, log_id |-> i, rating |-> v] :
            i \in Ids, v \in RatingInputs}

\* isinstance(rating, int): bool is a subclass of int.
IsInstanceInt(v) == v.type \in {"int", "bool"}

\* Line 181: the rating is refused.
RatingRefused(v) == ~IsInstanceInt(v) \/ v.val < 1 \/ v.val > 5

\* SessionGet with the lookup answering for any id.
SessionGet_Any(st, log_id) == TRUE

\* log_entry.rating as db.session.get loaded it.
LoadedRating(st, log_id) == IF log_id \in DOMAIN st THEN st[log_id].rating ELSE NULL

\* db.session.get(InteractionLog, log_id) (line 185): a row was found.
SessionGet(st, log_id) == log_id \in DOMAIN st

\* RatePersist writing the rating only where none is stored yet.
RatePersist_KeepFirst(st, id, v, fail) ==
    IF fail \/ st[id].rating # {} THEN st ELSE [st EXCEPT ![id].rating = {v.val}]

\* RatePersist marking the rated row resolved as well.
RatePersist_MarksResolved(st, id, v, fail) ==
    IF fail THEN st ELSE [st EXCEPT ![id].rating = {v.val}, ![id].resolved = {1}]

\* log_entry.rating = rating; db.session.commit(), and the rollback of the
\* except branch.
RatePersist(st, id, v, fail) ==
    IF fail THEN st ELSE [st EXCEPT ![id].rating = Val(v.val)]

\* old_rating of the 200 answer is the rating the row held when it was
\* loaded, kept for the properties; the handler does not return it.
rate_response(req, fail) ==
    IF req.keys = {} \/ "log_id" \notin req.keys \/ "rating" \notin req.keys
    THEN /\ last' = [op |-> "rate", req |-> req, status |-> 400,
                     error |-> "missing_fields"]
         /\ store' = store
    ELSE IF RatingRefused(req.rating)
    THEN /\ last' = [op |-> "rate", req |-> req, status |-> 400, error |-> "bad_rating"]
         /\ store' = store
    ELSE IF ~SessionGet(store, req.log_id)
    THEN /\ last' = [op |-> "rate", req |-> req, status |-> 404, error |-> "not_found"]
         /\ store' = store
    ELSE /\ store' = RatePersist(store, req.log_id, req.rating, fail)
         /\ last' = IF fail
                    THEN [op |-> "rate", req |-> req, status |-> 500,
                          error |-> "server_error"]
                    ELSE [op |-> "rate", req |-> req, status |-> 200,
                          log_id |-> req.log_id, rating |-> req.rating,
                          old_rating |-> LoadedRating(store, req.log_id)]

Rate ==
    /\ \E req \in RateRequests, fail \in BOOLEAN : rate_response(req, fail)
    /\ UNCHANGED <<csv, autoSyncVars, monitorVars, concVars>>

(***************************************************************************)
(* GET /stats, app.py get_stats.                                           *)
(*                                                                         *)
(* average_rating and resolution_rate are in hundredths (round(x, 2)),     *)
(* average_response_time in thousandths (round(x, 3)).                     *)
(***************************************************************************)

\* The sum of column col over the rows ids, all of which hold a value.
RECURSIVE SumOf(_, _, _)
SumOf(st, ids, col) ==
    IF ids = {} THEN 0
    ELSE LET i == CHOOSE x \in ids : TRUE
         IN ValueOf(st[i][col]) + SumOf(st, ids \ {i}, col)

\* round(num / den * scale) for num >= 0, den > 0.
Rounded(num, den, scale) == (2 * scale * num + den) \div (2 * den)

\* db.func.avg(column) over the rows where it is not NULL, "or 0", rounded.
AvgOrZero(st, col, scale) ==
    LET ids == {i \in DOMAIN st : st[i][col] # NULL}
    IN IF ids = {} THEN 0 ELSE Rounded(SumOf(st, ids, col), Cardinality(ids), scale)

\* Count with the resolved rows left uncounted.
CountWhere_None(st, col, v) == 0

\* query.filter(column == v).count()
CountWhere(st, col, v) == Cardinality({i \in DOMAIN st : st[i][col] = Val(v)})

\* ResolutionRate taking an empty table for a fully resolved one.
ResolutionRate_EmptyIsAll(resolved_count, total) ==
    IF total > 0 THEN Rounded(resolved_count, total, 10000) ELSE 10000

\* Line 231: the percentage, 0 for an empty table.
ResolutionRate(resolved_count, total) ==
    IF total > 0 THEN Rounded(resolved_count, total, 10000) ELSE 0

\* dict(intent_stats): the GROUP BY intent, NULL being a group of its own.
IntentDistribution(st) ==
    [k \in {st[i].intent : i \in DOMAIN st} |->
        Cardinality({i \in DOMAIN st : st[i].intent = k})]

\* jsonify sorts the keys of the objects it writes (Flask's default);
\* sorting the key None with a string key raises TypeError.
JsonifyRaises(dist) == NULL \in DOMAIN dist /\ DOMAIN dist # {NULL}

get_stats ==
    LET total_interactions == Cardinality(DOMAIN store)
        rated_interactions == Cardinality({i \in DOMAIN store : store[i].rating # NULL})
        resolved_count == CountWhere(store, "resolved", 1)
        resolution_rate == ResolutionRate(resolved_count, total_interactions)
        intent_stats == IntentDistribution(store)
    IN /\ last' = IF JsonifyRaises(intent_stats)
                  THEN [op |-> "stats", status |-> 500, error |-> "server_error"]
                  ELSE [op |-> "stats", status |-> 200,
                        total_interactions |-> total_interactions,
                        rated_interactions |-> rated_interactions,
                        average_rating |-> AvgOrZero(store, "rating", 100),
                        resolved_count |-> resolved_count,
                        resolution_rate |-> resolution_rate,
                        average_response_time |-> AvgOrZero(store, "response_time", 1),
                        intent_distribution |-> intent_stats]
       /\ store' = store

GetStats ==
    /\ get_stats
    /\ UNCHANGED <<csv, autoSyncVars, monitorVars, concVars>>

(***************************************************************************)
(* The administrative deletes of view_db.py.                               *)
(***************************************************************************)

delete_record_by_id(record_id) ==
    IF record_id \notin DOMAIN store
    THEN /\ store' = store
         /\ last' = [op |-> "delete", ids |-> {record_id}, ok |-> FALSE]
    ELSE /\ store' = DeleteRows(store, {record_id})
         /\ last' = [op |-> "delete", ids |-> {record_id}, ok |-> TRUE]

DeleteRecordById ==
    /\ \E record_id \in Ids : delete_record_by_id(record_id)
    /\ UNCHANGED <<csv, autoSyncVars, monitorVars, concVars>>

delete_all_records ==
    /\ store' = EmptyTable
    /\ last' = [op |-> "delete_all", ids |-> DOMAIN store, ok |-> TRUE]

DeleteAllRecords ==
    /\ delete_all_records
    /\ UNCHANGED <<csv, autoSyncVars, monitorVars, concVars>>

(***************************************************************************)
(* The CSV file.                                                           *)
(*                                                                         *)
(* kind: "missing" (no file), "empty" (no bytes: pandas raises             *)
(* EmptyDataError), "garbage" (pandas raises a ParserError) or "rows" (a   *)
(* header line and the data rows, possibly none).  A cell is NaN, a number *)
(* or a text; the cells of query_text hold the text itself.                *)
(***************************************************************************)

NaN == [kind |-> "nan", val |-> 0]
Num(n) == [kind |-> "num", val |-> n]
Text(t) == [kind |-> "text", val |-> 0, text |-> t]

\* pd.notna(cell)
NotNa(c) == c.kind # "nan"

\* A row as db_to_csv writes the row /chat logs for "Privet".
RowA(id) ==
    [id |-> id, user_id |-> Text("anonymous"), session_id |-> Text("uuid4"),
     timestamp |-> Text("utcnow"), query_text |-> Text(MsgPrivet),
     bot_response |-> Text("reply_greeting"), intent |-> Text("greeting"),
     resolved |-> Num(1), rating |-> NaN, response_time |-> Num(100),
     channel |-> Text("web"), language |-> Text("ru")]

\* A hand-written row: empty intent, resolved, response_time and channel,
\* and a rating outside 1..5.
RowB(id) ==
    [id |-> id, user_id |-> Text("u1"), session_id |-> Text("s1"),
     timestamp |-> Text("t1"), query_text |-> Text(MsgDozhd),
     bot_response |-> Text("reply_weather"), intent |-> NaN,
     resolved |-> NaN, rating |-> Num(9), response_time |-> NaN,
     channel |-> NaN, language |-> Text("en")]

\* RowB with a rating that is no number.
RowBadRating(id) == [RowB(id) EXCEPT !.rating = Text("abc")]

\* RowA with an empty user_id.
RowNoUser(id) == [RowA(id) EXCEPT !.user_id = NaN]

CsvRows == UNION {{RowA(i), RowB(i), RowBadRating(i), RowNoUser(i)} : i \in Ids}

SeqsUpTo(S, k) == UNION {[1..m -> S] : m \in 0..k}

MissingFile == [kind |-> "missing", rows |-> <<>>]
EmptyFile == [kind |-> "empty", rows |-> <<>>]
GarbageFile == [kind |-> "garbage", rows |-> <<>>]
RowsFile(rows) == [kind |-> "rows", rows |-> rows]

CsvFiles ==
    {MissingFile, EmptyFile, GarbageFile}
    \cup {RowsFile(rows) : rows \in SeqsUpTo(CsvRows, MaxCsvRows)}

\* Exists with a missing file taken for an empty one.
Exists_Always(file) == TRUE

\* os.path.exists(self.csv_path)
Exists(file) == file.kind # "missing"

\* pd.read_csv with the except EmptyDataError of csv_to_db: the frame's
\* rows, or a raised error.
\* Some of the texts pd.read_csv takes for a missing value (its default
\* na_values): nothing, NA, null, None.
NaValues == {"", "NA", "null", "None"}

\* The same for the cells of query_text: nothing, "NA".
NaTexts == {<<>>, <<78, 65>>}

\* A cell of a text column as pd.read_csv gives it.
ParseCell(c, na) == IF c.kind = "text" /\ c.text \in na THEN NaN ELSE c

ParseRow(row) ==
    [row EXCEPT !.user_id = ParseCell(@, NaValues),
                !.session_id = ParseCell(@, NaValues),
                !.timestamp = ParseCell(@, NaValues),
                !.query_text = ParseCell(@, NaTexts),
                !.bot_response = ParseCell(@, NaValues),
                !.intent = ParseCell(@, NaValues),
                !.channel = ParseCell(@, NaValues),
                !.language = ParseCell(@, NaValues)]

ReadCsv(file) ==
    IF file.kind = "garbage" THEN [ok |-> FALSE, rows |-> <<>>]
    ELSE [ok |-> TRUE, rows |-> [k \in 1..Len(file.rows) |-> ParseRow(file.rows[k])]]

(***************************************************************************)
(* CSV -> table, sync_csv_db.py CSVDBSync.csv_to_db (and its copy          *)
(* auto_sync.py AutoSync.sync_csv_to_db).                                  *)
(***************************************************************************)

\* A text cell as sqlite3 binds it: NaN is bound as NULL.
Bind(c) == IF NotNa(c) THEN Val(c.text) ELSE NULL

\* int(cell) and float(cell) raise ValueError on a text that is no number.
Unparseable(c) == c.kind = "text"

\* The dict "data" of lines 149-162; ok is FALSE when int() or float()
\* raises.
PrepareData(row) ==
    IF \/ NotNa(row.resolved) /\ Unparseable(row.resolved)
       \/ NotNa(row.rating) /\ Unparseable(row.rating)
       \/ NotNa(row.response_time) /\ Unparseable(row.response_time)
    THEN [ok |-> FALSE]
    ELSE [ok |-> TRUE,
          id |-> row.id,
          user_id |-> Bind(row.user_id),
          session_id |-> Bind(row.session_id),
          timestamp |-> Bind(row.timestamp),
          query_text |-> Bind(row.query_text),
          bot_response |-> Bind(row.bot_response),
          intent |-> Bind(row.intent),
          resolved |-> IF NotNa(row.resolved) THEN Val(row.resolved.val) ELSE Val(1),
          rating |-> IF NotNa(row.rating) THEN Val(row.rating.val) ELSE NULL,
          response_time |-> IF NotNa(row.response_time)
                            THEN Val(row.response_time.val) ELSE NULL,
          channel |-> Bind(row.channel),
          language |-> Bind(row.language)]

\* The NOT NULL columns of the table (lines 52-56).
NotNullViolated(data) ==
    \/ data.user_id = NULL
    \/ data.session_id = NULL
    \/ data.timestamp = NULL
    \/ data.query_text = NULL
    \/ data.bot_response = NULL

\* The row the UPDATE or the INSERT leaves in the table.
RowOfData(data) ==
    [user_id       |-> ValueOf(data.user_id),
     session_id    |-> ValueOf(data.session_id),
     timestamp     |-> ValueOf(data.timestamp),
     query_text    |-> ValueOf(data.query_text),
     bot_response  |-> ValueOf(data.bot_response),
     intent        |-> data.intent,
     resolved      |-> data.resolved,
     rating        |-> data.rating,
     response_time |-> data.response_time,
     channel       |-> data.channel,
     language      |-> data.language]

\* IdsToDelete with the DELETE of the absent ids left out.
IdsToDelete_None(existing_ids, csv_ids) == {}

\* Lines 139-144: the ids the DELETE removes.
IdsToDelete(existing_ids, csv_ids) == existing_ids \ csv_ids

\* Upsert as INSERT OR IGNORE: a row whose id is in the table is left as
\* it is.
Upsert_InsertOnly(work, data) ==
    IF NotNullViolated(data) THEN [ok |-> FALSE, table |-> work]
    ELSE IF data.id \in DOMAIN work THEN [ok |-> TRUE, table |-> work]
    ELSE [ok |-> TRUE, table |-> InsertRow(work, data.id, RowOfData(data))]

\* Upsert as a plain INSERT for every row: the PRIMARY KEY refuses an id
\* that is in the table (IntegrityError).
Upsert_PlainInsert(work, data) ==
    IF NotNullViolated(data) \/ data.id \in DOMAIN work THEN [ok |-> FALSE, table |-> work]
    ELSE [ok |-> TRUE, table |-> InsertRow(work, data.id, RowOfData(data))]

\* Lines 164-195 for one row, inside the open transaction: UPDATE when
\* the id is in the table, INSERT otherwise; ok is FALSE when sqlite
\* raises IntegrityError.
Upsert(work, data) ==
    IF NotNullViolated(data) THEN [ok |-> FALSE, table |-> work]
    ELSE IF data.id \in DOMAIN work
    THEN [ok |-> TRUE, table |-> [work EXCEPT ![data.id] = RowOfData(data)]]
    ELSE [ok |-> TRUE, table |-> InsertRow(work, data.id, RowOfData(data))]

\* The loop "for _, row in df.iterrows()" of lines 147-195 over the
\* uncommitted table: it stops at the first row that raises.
RECURSIVE ApplyRows(_, _)
ApplyRows(work, rows) ==
    IF rows = <<>> THEN [ok |-> TRUE, table |-> work]
    ELSE LET data == PrepareData(Head(rows))
         IN IF ~data.ok THEN [ok |-> FALSE, table |-> work]
            ELSE LET u == Upsert(work, data)
                 IN IF ~u.ok THEN u ELSE ApplyRows(u.table, Tail(rows))

\* Committed with every statement committed as it is issued (autocommit).
Committed_Autocommit(st, run) == run.table

\* What the connection leaves in the table: conn.commit() is reached only
\* when nothing raised; a connection dropped without commit rolls back.
Committed(st, run) == IF run.ok THEN run.table ELSE st

\* ClearTable taking an empty CSV for "nothing to do".
ClearTable_Keep(st) == st

\* Lines 123-130, df.empty: DELETE FROM interaction_log, committed.
ClearTable(st) == EmptyTable

\* csv_to_db as a whole: the value it returns and the committed table.
CsvToDbRun(st, file) ==
    IF ~Exists(file) THEN [ok |-> FALSE, table |-> st]
    ELSE LET df == ReadCsv(file)
         IN IF ~df.ok THEN [ok |-> FALSE, table |-> st]
            ELSE IF df.rows = <<>>
            THEN [ok |-> TRUE, table |-> ClearTable(st)]
            ELSE LET csv_ids == {df.rows[k].id : k \in 1..Len(df.rows)}
                     work == DeleteRows(st, IdsToDelete(DOMAIN st, csv_ids))
                     run == ApplyRows(work, df.rows)
                 IN [ok |-> run.ok, table |-> Committed(st, run)]

csv_to_db ==
    LET run == CsvToDbRun(store, csv)
    IN /\ store' = run.table
       /\ last' = [op |-> "csv_to_db", ok |-> run.ok, existing_ids |-> DOMAIN store]

CsvToDb ==
    /\ csv_to_db
    /\ UNCHANGED <<csv, autoSyncVars, monitorVars, concVars>>

\* AutoSync.sync_csv_to_db, run once (--once).
sync_csv_to_db ==
    LET run == CsvToDbRun(store, csv)
    IN /\ store' = run.table
       /\ last' = [op |-> "sync_csv_to_db", ok |-> run.ok, existing_ids |-> DOMAIN store]

SyncCsvToDb ==
    /\ sync_csv_to_db
    /\ UNCHANGED <<csv, autoSyncVars, monitorVars, concVars>>

(***************************************************************************)
(* csv_to_db beside other writers of the table.  The run is cut where a    *)
(* /chat commit can come in between: sqlite3 opens the write transaction   *)
(* at the first DELETE, UPDATE or INSERT, so the reading of the CSV, the   *)
(* SELECT of the existing ids and, when nothing is to be deleted, the      *)
(* SELECT that looks for the first row's id are each followed by a point   *)
(* where the table can change; from the first write to the commit the      *)
(* write lock keeps the other writers out.                                 *)
(***************************************************************************)

\* Lines 108-117: the file is tested and read.
RecOpen ==
    /\ job.pc = "idle"
    /\ job' = IF ~Exists(csv) \/ ~ReadCsv(csv).ok
              THEN [pc |-> "done", ok |-> FALSE]
              ELSE [pc |-> "read", rows |-> ReadCsv(csv).rows]
    /\ UNCHANGED <<store, csv, last, autoSyncVars, monitorVars, inflight>>

\* Lines 123-134: an empty frame clears the table, committed; otherwise
\* the existing ids are read.
RecReadIds ==
    /\ job.pc = "read"
    /\ IF job.rows = <<>>
       THEN /\ store' = ClearTable(store)
            /\ job' = [pc |-> "done", ok |-> TRUE]
       ELSE /\ store' = store
            /\ job' = [pc |-> "planned", rows |-> job.rows, existing_ids |-> DOMAIN store]
    /\ UNCHANGED <<csv, last, autoSyncVars, monitorVars, inflight>>

JobCsvIds == {job.rows[k].id : k \in 1..Len(job.rows)}

\* Line 139 over the ids read at line 134.
JobIdsToDelete == IdsToDelete(job.existing_ids, JobCsvIds)

\* Lines 164-166 for the first row when nothing was deleted: the SELECT
\* runs before any write, outside the write lock.
RecProbe ==
    /\ job.pc = "planned"
    /\ JobIdsToDelete = {}
    /\ job' = [pc |-> "probed", rows |-> job.rows, existing_ids |-> job.existing_ids,
               exists |-> job.rows[1].id \in DOMAIN store]
    /\ UNCHANGED <<store, csv, last, autoSyncVars, monitorVars, inflight>>

\* Lines 168-195 for the first row with the answer of its SELECT: an
\* INSERT of an id that has come into the table since raises
\* IntegrityError.
UpsertProbed(work, data, exists) ==
    IF NotNullViolated(data) THEN [ok |-> FALSE, table |-> work]
    ELSE IF exists
    THEN [ok |-> TRUE,
          table |-> IF data.id \in DOMAIN work
                    THEN [work EXCEPT ![data.id] = RowOfData(data)] ELSE work]
    ELSE IF data.id \in DOMAIN work THEN [ok |-> FALSE, table |-> work]
    ELSE [ok |-> TRUE, table |-> InsertRow(work, data.id, RowOfData(data))]

ApplyProbed(work, rows, exists) ==
    LET data == PrepareData(Head(rows))
    IN IF ~data.ok THEN [ok |-> FALSE, table |-> work]
       ELSE LET u == UpsertProbed(work, data, exists)
            IN IF ~u.ok THEN u ELSE ApplyRows(u.table, Tail(rows))

\* Lines 139-197 from the first write to the commit.
RecApply ==
    /\ \/ job.pc = "planned" /\ JobIdsToDelete # {}
       \/ job.pc = "probed"
    /\ LET work == DeleteRows(store, JobIdsToDelete)
           run == IF job.pc = "probed" THEN ApplyProbed(work, job.rows, job.exists)
                  ELSE ApplyRows(work, job.rows)
       IN /\ store' = Committed(store, run)
          /\ job' = [pc |-> "done", ok |-> run.ok]
    /\ UNCHANGED <<csv, last, autoSyncVars, monitorVars, inflight>>

(***************************************************************************)
(* Table -> CSV, sync_csv_db.py CSVDBSync.db_to_csv, and sync_both_ways.   *)
(*                                                                         *)
(* fail says that the export raises before it writes (the table cannot be  *)
(* read).                                                                  *)
(***************************************************************************)

\* What df.to_csv writes for a value of a text column and of a numeric
\* column: nothing for NULL.
WriteText(v) == IF v = NULL THEN NaN ELSE Text(ValueOf(v))
WriteNumber(v) == IF v = NULL THEN NaN ELSE Num(ValueOf(v))

ExportRow(id, r) ==
    [id |-> id,
     user_id |-> Text(r.user_id),
     session_id |-> Text(r.session_id),
     timestamp |-> Text(r.timestamp),
     query_text |-> Text(r.query_text),
     bot_response |-> Text(r.bot_response),
     intent |-> WriteText(r.intent),
     resolved |-> WriteNumber(r.resolved),
     rating |-> WriteNumber(r.rating),
     response_time |-> WriteNumber(r.response_time),
     channel |-> WriteText(r.channel),
     language |-> WriteText(r.language)]

SetMin(S) == CHOOSE m \in S : \A x \in S : m <= x

\* ExportRows in the order the table happens to give, largest id first.
RECURSIVE ExportRows_Unordered(_, _)
ExportRows_Unordered(st, ids) ==
    IF ids = {} THEN <<>>
    ELSE LET i == SetMax(ids)
         IN <<ExportRow(i, st[i])>> \o ExportRows_Unordered(st, ids \ {i})

\* SELECT ... FROM interaction_log ORDER BY id, one CSV row for each.
RECURSIVE ExportRows(_, _)
ExportRows(st, ids) ==
    IF ids = {} THEN <<>>
    ELSE LET i == SetMin(ids)
         IN <<ExportRow(i, st[i])>> \o ExportRows(st, ids \ {i})

\* db_to_csv as a whole: the value it returns and the file it leaves.
DbToCsvRun(st, file, fail) ==
    IF fail THEN [ok |-> FALSE, file |-> file]
    ELSE [ok |-> TRUE, file |-> RowsFile(ExportRows(st, DOMAIN st))]

db_to_csv(fail) ==
    LET out == DbToCsvRun(store, csv, fail)
    IN /\ csv' = out.file
       /\ last' = [op |-> "db_to_csv", ok |-> out.ok]

DbToCsv ==
    /\ \E fail \in BOOLEAN : db_to_csv(fail)
    /\ UNCHANGED <<store, autoSyncVars, monitorVars, concVars>>

\* Line 292 of sync_both_ways: db_to_csv is called whatever csv_to_db
\* returned.
ExportAfter(csv_success, st, file, fail) == DbToCsvRun(st, file, fail)

sync_both_ways(fail) ==
    LET run == CsvToDbRun(store, csv)
        out == ExportAfter(run.ok, run.table, csv, fail)
    IN /\ store' = run.table
       /\ csv' = out.file
       /\ last' = [op |-> "sync_both_ways", ok |-> run.ok /\ out.ok,
                   csv_success |-> run.ok, db_success |-> out.ok]

SyncBothWays ==
    /\ \E fail \in BOOLEAN : sync_both_ways(fail)
    /\ UNCHANGED <<autoSyncVars, monitorVars, concVars>>

(***************************************************************************)
(* The polling loops.                                                      *)
(*                                                                         *)
(* A hash is the content it was taken of (md5 collisions are left out);    *)
(* get_file_hash gives None for a missing file, _get_csv_hash gives "".    *)
(***************************************************************************)

NoneValue == [tag |-> "None", of |-> MissingFile]
EmptyString == [tag |-> "empty_string", of |-> MissingFile]
Md5(file) == [tag |-> "md5", of |-> file]

\* AutoSync.get_file_hash
get_file_hash(file) == IF ~Exists(file) THEN NoneValue ELSE Md5(file)

\* CSVDBSync._get_csv_hash
GetCsvHash(file) == IF ~Exists(file) THEN EmptyString ELSE Md5(file)

\* CSVDBSync._get_db_count
GetDbCount(st) == Cardinality(DOMAIN st)

\* Somebody outside the program writes, replaces or removes the CSV file:
\* the files it is replaced by.
PolledFiles ==
    {MissingFile, EmptyFile, GarbageFile,
     RowsFile(<<RowA(1)>>), RowsFile(<<RowB(1), RowA(2)>>),
     RowsFile(<<RowA(1), RowBadRating(2)>>), RowsFile(<<RowNoUser(1)>>),
     RowsFile(<<RowA(1), RowB(1)>>)}

ReplaceCsv ==
    /\ \E file \in PolledFiles : csv' = file
    /\ last' = [op |-> "edit_csv"]
    /\ UNCHANGED <<store, autoSyncVars, monitorVars, concVars>>

\* StartupHash leaving last_hash at None, as __init__ set it.
StartupHash_None(file) == NoneValue

\* Line 158: last_hash before the loop is the hash of the file as it is.
StartupHash(file) == get_file_hash(file)

\* AutoSync.start_monitoring up to the loop.
StartMonitoring ==
    /\ as_pc = "new" /\ mc_pc = "new"
    /\ last_hash' = StartupHash(csv)
    /\ as_pc' = "check"
    /\ UNCHANGED <<store, csv, last, current_hash, monitorVars, concVars>>

\* Lines 161-165: "while self.running", the hash, the comparison.
AutoSyncCheck ==
    /\ as_pc = "check"
    /\ LET h == get_file_hash(csv)
       IN IF h # last_hash
          THEN current_hash' = h /\ as_pc' = "sync"
          ELSE current_hash' = current_hash /\ as_pc' = "sleep"
    /\ UNCHANGED <<store, csv, last, last_hash, monitorVars, concVars>>

\* AfterSync with a failed reconciliation ending the loop.
AfterSync_StopOnFailure(ok) == IF ok THEN "sleep" ELSE "stopped"

\* Where the loop goes once sync_csv_to_db has returned (lines 168-174):
\* to time.sleep, whatever was returned.
AfterSync(ok) == "sleep"

\* HashAfterSync taking the new hash whatever sync_csv_to_db returned.
HashAfterSync_Always(ok, current, previous) == current

\* Lines 168-169: last_hash after the reconciliation.
HashAfterSync(ok, current, previous) == IF ok THEN current ELSE previous

\* Lines 168-172: the reconciliation, and last_hash on success.
AutoSyncSync ==
    /\ as_pc = "sync"
    /\ LET run == CsvToDbRun(store, csv)
       IN /\ store' = run.table
          /\ last_hash' = HashAfterSync(run.ok, current_hash, last_hash)
          /\ last' = [op |-> "auto_sync", ok |-> run.ok]
          /\ as_pc' = AfterSync(run.ok)
    /\ current_hash' = NoneValue
    /\ UNCHANGED <<csv, monitorVars, concVars>>

\* time.sleep(self.interval) returns.
AutoSyncSleep ==
    /\ as_pc = "sleep"
    /\ as_pc' = "check"
    /\ UNCHANGED <<store, csv, last, last_hash, current_hash, monitorVars, concVars>>

\* Ctrl+C: the except KeyboardInterrupt of line 176.
AutoSyncInterrupt ==
    /\ as_pc \in {"check", "sync", "sleep"}
    /\ as_pc' = "stopped"
    /\ current_hash' = NoneValue
    /\ last' = [op |-> "interrupt"]
    /\ UNCHANGED <<store, csv, last_hash, monitorVars, concVars>>

\* CSVDBSync.monitor_changes is called.
MonitorStart ==
    /\ mc_pc = "new" /\ as_pc = "new"
    /\ mc_pc' = "check"
    /\ UNCHANGED <<store, csv, last, autoSyncVars, last_csv_hash, last_db_count, concVars>>

\* Where monitor_changes goes after the body of an iteration, also when
\* csv_to_db returned False or the except branch ran: to time.sleep.
AfterIteration(ok) == "sleep"

\* One iteration of monitor_changes, lines 306-321.
MonitorIteration ==
    /\ mc_pc = "check"
    /\ LET current_csv_hash == GetCsvHash(csv)
           current_db_count == GetDbCount(store)
           changed == current_csv_hash # last_csv_hash
           run == CsvToDbRun(store, csv)
       IN /\ store' = IF changed THEN run.table ELSE store
          /\ last_csv_hash' = IF changed /\ run.ok THEN current_csv_hash
                              ELSE last_csv_hash
          /\ last_db_count' = current_db_count
          /\ last' = IF changed THEN [op |-> "monitor_changes", ok |-> run.ok] ELSE last
          /\ mc_pc' = AfterIteration(~changed \/ run.ok)
    /\ UNCHANGED <<csv, autoSyncVars, concVars>>

MonitorSleep ==
    /\ mc_pc = "sleep"
    /\ mc_pc' = "check"
    /\ UNCHANGED <<store, csv, last, autoSyncVars, last_csv_hash, last_db_count, concVars>>

\* Ctrl+C: the except KeyboardInterrupt of line 325.
MonitorInterrupt ==
    /\ mc_pc \in {"check", "sleep"}
    /\ mc_pc' = "stopped"
    /\ last' = [op |-> "interrupt"]
    /\ UNCHANGED <<store, csv, autoSyncVars, last_csv_hash, last_db_count, concVars>>

(***************************************************************************)
(* Specifications.                                                         *)
(***************************************************************************)

\* After construction: an empty table (db.create_all, _init_database), no
\* CSV file, both loops not started.
Init ==
    /\ store = EmptyTable
    /\ csv = MissingFile
    /\ last = [op |-> "none"]
    /\ last_hash = NoneValue
    /\ current_hash = NoneValue
    /\ as_pc = "new"
    /\ last_csv_hash = NoneValue
    /\ last_db_count = 0
    /\ mc_pc = "new"
    /\ inflight = NoRequests
    /\ job = NoJob

\* The whole program but the polling loops: the web API, the
\* administrative deletes, the one-shot reconciliations and an editor of
\* the CSV file.
Next ==
    \/ Chat
    \/ Rate
    \/ GetStats
    \/ DeleteRecordById
    \/ DeleteAllRecords
    \/ ReplaceCsv
    \/ CsvToDb
    \/ SyncCsvToDb

Spec == Init /\ [][Next]_vars

\* The web API and the administrative deletes alone.
WebNext ==
    \/ Chat
    \/ Rate
    \/ GetStats
    \/ DeleteRecordById
    \/ DeleteAllRecords

WebSpec == Init /\ [][WebNext]_vars

\* The rows a table holds when a reconciliation starts: what /chat logged
\* for "Privet", the same rated 5 through /rate, what /chat logged for
\* "dozhd", and a row an earlier reconciliation took from RowB.
PrivetRow == LogEntry(CHOOSE q \in ChatRequests : q.message = MsgPrivet,
                      generate_bot_reply(MsgPrivet))
DozhdRow == LogEntry(CHOOSE q \in ChatRequests : q.message = MsgDozhd,
                     generate_bot_reply(MsgDozhd))
TableRows ==
    {PrivetRow, [PrivetRow EXCEPT !.rating = Val(5)], DozhdRow,
     RowOfData(PrepareData(RowB(1)))}

Tables == UNION {[S -> TableRows] : S \in SUBSET Ids}

\* One reconciliation, from every table against every CSV file.
ReconcileInit ==
    /\ store \in Tables
    /\ csv \in CsvFiles
    /\ last = [op |-> "none"]
    /\ last_hash = NoneValue
    /\ current_hash = NoneValue
    /\ as_pc = "new"
    /\ last_csv_hash = NoneValue
    /\ last_db_count = 0
    /\ mc_pc = "new"
    /\ inflight = NoRequests
    /\ job = NoJob

ReconcileNext ==
    \/ CsvToDb
    \/ SyncCsvToDb

ReconcileSpec == ReconcileInit /\ [][ReconcileNext]_vars

\* One polling loop (either of the two) beside the web API and an editor
\* of the CSV file.
NextMonitor ==
    \/ ReplaceCsv
    \/ Chat
    \/ StartMonitoring
    \/ AutoSyncCheck
    \/ AutoSyncSync
    \/ AutoSyncSleep
    \/ AutoSyncInterrupt
    \/ MonitorStart
    \/ MonitorIteration
    \/ MonitorSleep
    \/ MonitorInterrupt

MonitorSpec == Init /\ [][NextMonitor]_vars

\* The row /chat logs for {"message": "Privet", "channel": "NA"}.
NaChannelRow == [PrivetRow EXCEPT !.channel = Val("NA")]

ExportTables == UNION {[S -> TableRows \cup {NaChannelRow}] : S \in SUBSET Ids}

\* The exports and the reconciliation of sync_csv_db.py, from every table
\* beside some CSV files.
ExportInit ==
    /\ store \in ExportTables
    /\ csv \in PolledFiles
    /\ last = [op |-> "none"]
    /\ last_hash = NoneValue
    /\ current_hash = NoneValue
    /\ as_pc = "new"
    /\ last_csv_hash = NoneValue
    /\ last_db_count = 0
    /\ mc_pc = "new"
    /\ inflight = NoRequests
    /\ job = NoJob

ExportNext ==
    \/ DbToCsv
    \/ CsvToDb
    \/ SyncBothWays

ExportSpec == ExportInit /\ [][ExportNext]_vars

\* Two /chat requests served at the same time.
ChatsNext ==
    \E t \in Threads :
        \/ ChatReceive(t)
        \/ ChatCommit(t)
        \/ ChatRespond(t)

ChatsSpec == Init /\ [][ChatsNext]_vars

\* AutoSync.start_monitoring as the only writer of the table, beside an
\* editor of the CSV file.
PollInit ==
    /\ store \in UNION {[S -> {PrivetRow}] : S \in SUBSET Ids}
    /\ csv \in PolledFiles
    /\ last = [op |-> "none"]
    /\ last_hash = NoneValue
    /\ current_hash = NoneValue
    /\ as_pc = "new"
    /\ last_csv_hash = NoneValue
    /\ last_db_count = 0
    /\ mc_pc = "new"
    /\ inflight = NoRequests
    /\ job = NoJob

PollNext ==
    \/ ReplaceCsv
    \/ StartMonitoring
    \/ AutoSyncCheck
    \/ AutoSyncSync
    \/ AutoSyncSleep
    \/ AutoSyncInterrupt

PollSpec == PollInit /\ [][PollNext]_vars

\* The loop while nobody interrupts it.
LoopNext ==
    \/ ReplaceCsv
    \/ StartMonitoring
    \/ AutoSyncCheck
    \/ AutoSyncSync
    \/ AutoSyncSleep

\* The thread that runs start_monitoring is scheduled again and again, and
\* time.sleep returns: each step of the loop that can be taken is taken.
LoopFairness ==
    /\ WF_vars(StartMonitoring)
    /\ WF_vars(AutoSyncCheck)
    /\ WF_vars(AutoSyncSync)
    /\ WF_vars(AutoSyncSleep)

FairPollSpec == PollInit /\ [][LoopNext]_vars /\ LoopFairness

\* The tables a concurrent run starts from: rows /chat logged earlier.
ConcTables == UNION {[S -> {PrivetRow}] : S \in SUBSET Ids}

ConcInit ==
    /\ store \in ConcTables
    /\ csv \in PolledFiles
    /\ last = [op |-> "none"]
    /\ last_hash = NoneValue
    /\ current_hash = NoneValue
    /\ as_pc = "new"
    /\ last_csv_hash = NoneValue
    /\ last_db_count = 0
    /\ mc_pc = "new"
    /\ inflight = NoRequests
    /\ job = NoJob

\* One reconciliation beside the /chat requests of the worker threads.
ConcNext ==
    \/ \E t \in Threads : ChatReceive(t) \/ ChatCommit(t) \/ ChatRespond(t)
    \/ RecOpen
    \/ RecReadIds
    \/ RecProbe
    \/ RecApply

ConcSpec == ConcInit /\ [][ConcNext]_vars

(***************************************************************************)
(* The responder alone: generate_bot_reply applied to one text.  The text  *)
(* is every keyword by itself, some words that are no keyword, and the     *)
(* texts of up to MaxWords words joined by blanks.                         *)
(***************************************************************************)

AllKeywords ==
    GreetingKeywords \cup TimeKeywords \cup DateKeywords \cup WeatherKeywords
        \cup HelpKeywords \cup ThanksKeywords \cup ByeKeywords \cup BotKeywords
        \cup AgeKeywords

\* "this" (holds "hi"), "pokazhi" (holds "poka"), "xyz", "HELLO", "POGODA",
\* "VREMYa".
OtherWords ==
    {<<116, 104, 105, 115>>,
     <<1087, 1086, 1082, 1072, 1078, 1080>>,
     <<120, 121, 122>>,
     <<72, 69, 76, 76, 79>>,
     <<1055, 1054, 1043, 1054, 1044, 1040>>,
     <<1042, 1056, 1045, 1052, 1071>>}

\* One keyword of each branch: hello, vremya, chislo, dozhd, help, thanks,
\* bye, imya, vozrast; and the word "xyz".
MixWords ==
    {<<104, 101, 108, 108, 111>>,
     <<1074, 1088, 1077, 1084, 1103>>,
     <<1095, 1080, 1089, 1083, 1086>>,
     MsgDozhd,
     <<104, 101, 108, 112>>,
     <<116, 104, 97, 110, 107, 115>>,
     <<98, 121, 101>>,
     <<1080, 1084, 1103>>,
     <<1074, 1086, 1079, 1088, 1072, 1089, 1090>>,
     <<120, 121, 122>>}

\* The words of ws joined by one blank.
RECURSIVE Join(_)
Join(ws) ==
    IF ws = <<>> THEN <<>>
    ELSE IF Len(ws) = 1 THEN ws[1]
    ELSE ws[1] \o <<32>> \o Join(Tail(ws))

ResponderInputs ==
    AllKeywords \cup OtherWords \cup {MsgPrivet} \cup {Join(ws) : ws \in SeqsUpTo(MixWords, MaxWords)}

ResponderInit ==
    /\ store = EmptyTable
    /\ csv = MissingFile
    /\ last \in {[op |-> "ask", text |-> t] : t \in ResponderInputs}
    /\ last_hash = NoneValue
    /\ current_hash = NoneValue
    /\ as_pc = "new"
    /\ last_csv_hash = NoneValue
    /\ last_db_count = 0
    /\ mc_pc = "new"
    /\ inflight = NoRequests
    /\ job = NoJob

GenerateBotReply ==
    /\ last.op = "ask"
    /\ last' = [op |-> "reply", text |-> last.text, result |-> generate_bot_reply(last.text)]
    /\ UNCHANGED <<store, csv, autoSyncVars, monitorVars, concVars>>

ResponderNext == GenerateBotReply

ResponderSpec == ResponderInit /\ [][ResponderNext]_vars

(***************************************************************************)
(* Properties of the CSV -> table reconciliation (ReconcileSpec).          *)
(***************************************************************************)

SyncOps == {"csv_to_db", "sync_csv_to_db"}

\* The last operation was a one-shot reconciliation.
Reconciled == last.op \in SyncOps

HasDataRows(file) == file.kind = "rows" /\ file.rows # <<>>

CsvIds(file) == {file.rows[k].id : k \in 1..Len(file.rows)}

\* The last row of the CSV that lists id.
LastRowWithId(file, id) ==
    LET k == SetMax({j \in 1..Len(file.rows) : file.rows[j].id = id})
    IN file.rows[k]

\* A row that the row loop cannot store: a rating, resolved or
\* response_time that is no number, or an empty NOT NULL column.
RowRaises(row) ==
    \/ row.rating.kind = "text"
    \/ row.resolved.kind = "text"
    \/ row.response_time.kind = "text"
    \/ \E c \in {"user_id", "session_id", "timestamp", "query_text", "bot_response"} :
          row[c].kind = "nan"

\* A file on which the reconciliation cannot succeed.
CannotSucceed(file) ==
    \/ file.kind \in {"missing", "garbage"}
    \/ \E k \in 1..Len(file.rows) : RowRaises(file.rows[k])

\* C1: after a successful reconciliation of a CSV that has data rows, the
\* ids of the table are exactly the ids of the CSV.
C1_StoreIdsEqualCsvIds ==
    (Reconciled /\ last.ok /\ HasDataRows(csv)) => DOMAIN store = CsvIds(csv)

\* C1 witness: a successful reconciliation that deleted an id absent from
\* the CSV and inserted an id absent from the table.
C1_Witness ==
    /\ Reconciled /\ last.ok /\ HasDataRows(csv)
    /\ last.existing_ids \ CsvIds(csv) # {}
    /\ CsvIds(csv) \ last.existing_ids # {}
    /\ DOMAIN store = CsvIds(csv)

\* C2: reconciling a CSV that exists and has no data rows (no bytes at
\* all, or a header only) reports success and leaves the table empty.
C2_EmptyCsvClearsStore ==
    (Reconciled /\ csv.kind \in {"empty", "rows"} /\ csv.rows = <<>>)
        => (last.ok /\ store = EmptyTable)

\* C2 witness: an empty CSV reconciled against a table that had rows.
C2_Witness ==
    /\ Reconciled /\ csv = EmptyFile
    /\ last.existing_ids # {}
    /\ last.ok /\ store = EmptyTable

\* C3 as claimed: reconciling while the CSV file is missing clears the
\* table.
C3_MissingCsvClearsStore ==
    (Reconciled /\ csv.kind = "missing") => store = EmptyTable

\* C3 as amended: reconciling while the CSV file is missing returns False
\* and leaves the table as it was.
C3_MissingCsvLeavesStore ==
    [][(last'.op \in SyncOps /\ csv'.kind = "missing")
           => (~last'.ok /\ store' = store)]_vars

\* C3 witness: a reconciliation with no CSV file, failed, the rows of the
\* table still there.
C3_Witness ==
    /\ Reconciled /\ csv.kind = "missing"
    /\ ~last.ok /\ last.existing_ids # {} /\ DOMAIN store = last.existing_ids

\* The value a nullable numeric column holds for a CSV cell.
NumberOf(cell) == IF cell.kind = "nan" THEN NULL ELSE Val(cell.val)

\* The table row r holds the values of the CSV row c: every non-empty cell
\* as it is, an empty rating or response_time as NULL, an empty resolved
\* as 1.
HoldsValuesOf(r, c) ==
    /\ r.user_id = c.user_id.text
    /\ r.session_id = c.session_id.text
    /\ r.timestamp = c.timestamp.text
    /\ r.query_text = c.query_text.text
    /\ r.bot_response = c.bot_response.text
    /\ c.intent.kind # "nan" => r.intent = Val(c.intent.text)
    /\ r.resolved = (IF c.resolved.kind = "nan" THEN Val(1) ELSE Val(c.resolved.val))
    /\ r.rating = NumberOf(c.rating)
    /\ r.response_time = NumberOf(c.response_time)
    /\ c.channel.kind # "nan" => r.channel = Val(c.channel.text)
    /\ c.language.kind # "nan" => r.language = Val(c.language.text)

\* C4: after a successful reconciliation every row of the table holds the
\* values of the (last) CSV row with its id, whether the id was in the
\* table before (updated in place, its rating overwritten) or not
\* (inserted).
C4_RowsHoldCsvValues ==
    (Reconciled /\ last.ok /\ HasDataRows(csv))
        => \A id \in DOMAIN store : HoldsValuesOf(store[id], LastRowWithId(csv, id))

\* C4 witness: a successful reconciliation that updated a row in place
\* and inserted another.
C4_Witness ==
    /\ Reconciled /\ last.ok /\ HasDataRows(csv)
    /\ \E id \in DOMAIN store : id \in last.existing_ids
    /\ \E id \in DOMAIN store : id \notin last.existing_ids

\* C5: a reconciliation that cannot go through (no file, a file pandas
\* cannot parse, a row that raises) returns False, and a reconciliation
\* that returns False leaves the committed table exactly as it was.
C5_FailureLeavesStore ==
    [][last'.op \in SyncOps
           => /\ CannotSucceed(csv') => ~last'.ok
              /\ ~last'.ok => store' = store]_vars

\* C5 witness: a failed reconciliation whose second row raised, after a
\* DELETE of absent ids and the upsert of the first row were issued.
C5_Witness ==
    /\ Reconciled /\ ~last.ok
    /\ Len(csv.rows) >= 2 /\ ~RowRaises(csv.rows[1]) /\ RowRaises(csv.rows[2])
    /\ last.existing_ids \ CsvIds(csv) # {}
    /\ DOMAIN store = last.existing_ids

(***************************************************************************)
(* Properties of the polling loops (MonitorSpec).                          *)
(***************************************************************************)

\* C6: in both polling loops an iteration whose reconciliation failed
\* ends in the loop's time.sleep, not in the end of the loop, and the
\* loop goes from time.sleep to its next iteration.
C6_FailedIterationContinues ==
    [][/\ (as_pc = "sync" /\ last'.op = "auto_sync" /\ ~last'.ok) => as_pc' = "sleep"
       /\ (mc_pc = "check" /\ mc_pc' # "check" /\ last'.op = "monitor_changes"
              /\ ~last'.ok) => mc_pc' = "sleep"
       /\ (as_pc = "sleep" /\ as_pc' # "sleep" /\ last'.op # "interrupt")
              => as_pc' = "check"
       /\ (mc_pc = "sleep" /\ mc_pc' # "sleep" /\ last'.op # "interrupt")
              => mc_pc' = "check"]_vars

\* C6 witness: AutoSync is at the head of its next iteration after an
\* iteration whose reconciliation failed.
C6_Witness == as_pc = "check" /\ last.op = "auto_sync" /\ ~last.ok

(***************************************************************************)
(* Properties of the web API (WebSpec).                                    *)
(***************************************************************************)

\* A message that is present and not blank.
ValidMessage(req) ==
    /\ "message" \in req.keys
    /\ \E i \in 1..Len(req.message) : ~IsSpace(req.message[i])

\* C7: a valid /chat request whose commit does not fail is answered 200
\* after one call of the responder; exactly one row is added, under the
\* log_id of the response, and it holds the request's message and the
\* response's reply, intent and resolved flag; no other row changes.
C7_ChatCreatesOneRecord ==
    [][(last'.op = "chat" /\ ValidMessage(last'.req) /\ ~last'.commit_failed)
          => /\ last'.status = 200
             /\ last'.invoked = 1
             /\ last'.log_id \notin DOMAIN store
             /\ DOMAIN store' = DOMAIN store \cup {last'.log_id}
             /\ \A i \in DOMAIN store : store'[i] = store[i]
             /\ store'[last'.log_id].query_text = last'.req.message
             /\ store'[last'.log_id].bot_response = last'.response
             /\ store'[last'.log_id].intent = Val(last'.intent)
             /\ store'[last'.log_id].resolved = Val(IF last'.resolved THEN 1 ELSE 0)]_vars

\* C7 witness: a second record created by /chat and found under the
\* log_id of the response.
C7_Witness ==
    /\ last.op = "chat" /\ last.status = 200
    /\ last.log_id \in DOMAIN store
    /\ store[last.log_id].query_text = last.req.message
    /\ Cardinality(DOMAIN store) = 2

\* C8: /chat without a message, or with a message that is blank once
\* trimmed, is answered 400, the responder is not called and the table is
\* unchanged.
C8_InvalidChatRejected ==
    [][(last'.op = "chat" /\ ~ValidMessage(last'.req))
          => /\ last'.status = 400
             /\ last'.invoked = 0
             /\ store' = store]_vars

\* C8 witness: a blank message refused while the table holds a row.
C8_Witness ==
    /\ last.op = "chat" /\ last.status = 400
    /\ "message" \in last.req.keys /\ last.req.message # <<>>
    /\ store # EmptyTable

\* C9: when the commit of /chat fails the answer is the 500 error
\* envelope without a log_id and the table is as it was before.
C9_FailedChatRolledBack ==
    [][(last'.op = "chat" /\ last'.status \in {200, 500} /\ last'.commit_failed)
          => /\ last'.status = 500
             /\ "log_id" \notin DOMAIN last'
             /\ "error" \in DOMAIN last'
             /\ store' = store]_vars

\* C9 witness: a failed commit answered 500 while the table holds a row.
C9_Witness ==
    /\ last.op = "chat" /\ last.status = 500 /\ last.commit_failed
    /\ store # EmptyTable

\* An integer of 1..5 (a JSON number, not a boolean and not a string).
IntegerInRange(v) == v.type = "int" /\ v.val >= 1 /\ v.val <= 5

\* C10 as claimed: /rate for a record of the table with a rating that is
\* no integer of 1..5 is answered 400 and changes no record.
C10_BadRatingRejected ==
    [][(last'.op = "rate" /\ {"log_id", "rating"} \subseteq last'.req.keys
           /\ last'.req.log_id \in DOMAIN store
           /\ ~IntegerInRange(last'.req.rating))
          => (last'.status = 400 /\ store' = store)]_vars

(***************************************************************************)
(* C11: /rate for an id without a record.                                  *)
(***************************************************************************)

\* C11: a /rate request with a valid rating whose log_id names no record of
\* the store (never created, or deleted since) is answered 404 and leaves
\* the store unchanged.
C11_UnknownIdNotFound ==
    [][(last'.op = "rate" /\ {"log_id", "rating"} \subseteq last'.req.keys
           /\ IntegerInRange(last'.req.rating)
           /\ last'.req.log_id \notin DOMAIN store)
          => (last'.status = 404 /\ store' = store)]_vars

\* A valid rating for id 1 was answered 404 while the table holds row 2:
\* row 1 was deleted, by hand or by a reconciliation.
C11_Witness ==
    /\ last.op = "rate"
    /\ last.status = 404
    /\ IntegerInRange(last.req.rating)
    /\ last.req.log_id = 1
    /\ DOMAIN store = {2}

(***************************************************************************)
(* C12: the last rating wins.                                              *)
(***************************************************************************)

RateSucceeded(l) == l.op = "rate" /\ l.status = 200

\* C12: after a successful /rate the stored rating of the row is the rating
\* of that call, whatever was stored before; and a successful /rate that
\* repeats the request of the successful /rate just before it leaves the
\* store as it was.
C12_LastRatingWins ==
    [][RateSucceeded(last')
          => /\ store'[last'.req.log_id].rating = {last'.req.rating.val}
             /\ (RateSucceeded(last) /\ last.req = last'.req) => store' = store]_vars

\* A successful /rate replaced a different rating stored by an earlier one.
C12_Witness ==
    /\ RateSucceeded(last)
    /\ last.old_rating # {}
    /\ last.old_rating # {last.req.rating.val}
    /\ store[last.req.log_id].rating = {last.req.rating.val}

(***************************************************************************)
(* C13: the range of the stored ratings.                                   *)
(***************************************************************************)

RatingAbsentOrInRange(r) == r.rating = {} \/ \E n \in 1..5 : r.rating = {n}

\* C13: in every reachable state the rating of every row of the store is
\* absent or an integer from 1 to 5.
C13_RatingInRange == \A id \in DOMAIN store : RatingAbsentOrInRange(store[id])

(***************************************************************************)
(* C14: ids are unique and fixed.  The table is keyed by its PRIMARY KEY,  *)
(* so the property is stated over the rows each operation adds, keeps and  *)
(* removes.                                                                *)
(***************************************************************************)

\* Row i is the same row before and after the step, but for its rating.
SameRowAt(i) == [store'[i] EXCEPT !.rating = store[i].rating] = store[i]

\* C14: no two rows share an id and no operation moves a row to another
\* id.  A successful /chat adds one row under an id no row holds; /rate
\* adds and removes none; a delete removes the ids it names and no other;
\* outside a reconciliation every row that stays is the same row under the
\* same id; and a reconciliation of a loadable CSV succeeds, with one row
\* for each distinct id of the CSV even when the CSV lists an id twice.
C14_IdsUniqueAndFixed ==
    [][/\ (last'.op = "chat" /\ last'.status = 200)
             => /\ last'.log_id \notin DOMAIN store
                /\ DOMAIN store' = DOMAIN store \cup {last'.log_id}
       /\ last'.op = "rate" => DOMAIN store' = DOMAIN store
       /\ last'.op \in {"delete", "delete_all"}
             => DOMAIN store' = DOMAIN store \ last'.ids
       /\ last'.op \notin SyncOps
             => \A i \in DOMAIN store \cap DOMAIN store' : SameRowAt(i)
       /\ (last'.op \in SyncOps /\ HasDataRows(csv) /\ ~CannotSucceed(csv))
             => /\ last'.ok
                /\ Cardinality(DOMAIN store') = Cardinality(CsvIds(csv))]_vars

\* A reconciliation of a CSV whose two rows list the same id, run on a
\* table that already held that id, left one row under it.
C14_Witness ==
    /\ Reconciled /\ last.ok
    /\ HasDataRows(csv) /\ Len(csv.rows) = 2
    /\ csv.rows[1].id = csv.rows[2].id
    /\ csv.rows[1].id \in last.existing_ids
    /\ DOMAIN store = {csv.rows[1].id}

(***************************************************************************)
(* C15: what a successful /rate leaves alone.                              *)
(***************************************************************************)

\* C15: a successful /rate changes nothing but the rating of the row it
\* names: the other fields of that row and every other row are as before,
\* and no row is added or removed.
C15_RateChangesOnlyRating ==
    [][RateSucceeded(last')
          => store' = [store EXCEPT ![last'.req.log_id].rating =
                                       store'[last'.req.log_id].rating]]_vars

\* A successful /rate changed the rating of an unresolved row while the
\* table held a second row.
C15_Witness ==
    /\ RateSucceeded(last)
    /\ DOMAIN store = {1, 2}
    /\ store[last.req.log_id].resolved = {0}
    /\ store[last.req.log_id].rating # last.old_rating

(***************************************************************************)
(* C16, C17: the responder (ResponderSpec).                                *)
(***************************************************************************)

\* The categories in their priority order, each with its keywords, its
\* intent and its resolved flag.
Priority ==
    <<[keywords |-> GreetingKeywords, intent |-> "greeting",      resolved |-> TRUE],
      [keywords |-> TimeKeywords,     intent |-> "time_query",    resolved |-> TRUE],
      [keywords |-> DateKeywords,     intent |-> "date_query",    resolved |-> TRUE],
      [keywords |-> WeatherKeywords,  intent |-> "weather_query", resolved |-> FALSE],
      [keywords |-> HelpKeywords,     intent |-> "help_request",  resolved |-> TRUE],
      [keywords |-> ThanksKeywords,   intent |-> "thanks",        resolved |-> TRUE],
      [keywords |-> ByeKeywords,      intent |-> "goodbye",       resolved |-> TRUE],
      [keywords |-> BotKeywords,      intent |-> "bot_info",      resolved |-> TRUE],
      [keywords |-> AgeKeywords,      intent |-> "bot_info",      resolved |-> TRUE]>>

\* The categories a text matches: one of the keywords is a substring of
\* the text in lower case.
Matching(text) ==
    {k \in 1..Len(Priority) : \E kw \in Priority[k].keywords : Contains(Lower(text), kw)}

Earliest(text) == CHOOSE k \in Matching(text) : \A j \in Matching(text) : k <= j

Replied == last.op = "reply"

\* C16: for a text that matches one category or more, the intent and the
\* resolved flag returned are those of the matching category that comes
\* first in the priority order; a text with a greeting keyword is a
\* greeting, resolved.
C16_EarliestCategoryWins ==
    (Replied /\ Matching(last.text) # {})
        => /\ last.result.intent = Priority[Earliest(last.text)].intent
           /\ last.result.resolved = Priority[Earliest(last.text)].resolved
           /\ 1 \in Matching(last.text)
                 => (last.result.intent = "greeting" /\ last.result.resolved)

\* A text that matches weather and help, two categories whose flags differ,
\* was answered as weather.
C16_Witness ==
    /\ Replied
    /\ Matching(last.text) = {4, 5}
    /\ last.result.intent = "weather_query"
    /\ ~last.result.resolved

\* C17: a text that matches no category is answered with intent unknown,
\* not resolved; and for every text the answer is not resolved exactly
\* when its intent is weather_query or unknown.
C17_UnknownAndUnresolved ==
    Replied
        => /\ Matching(last.text) = {}
                 => (last.result.intent = "unknown" /\ ~last.result.resolved)
           /\ ~last.result.resolved <=> last.result.intent \in {"weather_query", "unknown"}

\* A text of two words that matches no category was answered as unknown.
C17_Witness ==
    /\ Replied
    /\ Len(last.text) > 3
    /\ Matching(last.text) = {}
    /\ last.result.intent = "unknown"
    /\ ~last.result.resolved

(***************************************************************************)
(* C18, C19: /stats.                                                       *)
(***************************************************************************)

StatsAnswered == last.op = "stats"

\* C18: on an empty table /stats succeeds and reports zero interactions,
\* zero rated interactions, average rating 0, zero resolved and resolution
\* rate 0.
C18_StatsOfEmptyTable ==
    (StatsAnswered /\ store = EmptyTable)
        => /\ last.status = 200
           /\ last.total_interactions = 0
           /\ last.rated_interactions = 0
           /\ last.average_rating = 0
           /\ last.resolved_count = 0
           /\ last.resolution_rate = 0

\* /stats answered on an empty table.
C18_Witness ==
    /\ StatsAnswered
    /\ store = EmptyTable
    /\ last.status = 200
    /\ last.intent_distribution = EmptyTable

\* C19: whatever the table holds, /stats succeeds and reports the number
\* of rows, the number of rows that have a rating and the number of rows
\* with resolved true; so it reports at least one rated interaction once a
\* chat has been rated.
C19_StatsCountRows ==
    StatsAnswered
        => /\ last.status = 200
           /\ last.total_interactions = Cardinality(DOMAIN store)
           /\ last.rated_interactions =
                 Cardinality({i \in DOMAIN store : store[i].rating # {}})
           /\ last.resolved_count =
                 Cardinality({i \in DOMAIN store : store[i].resolved = {1}})

(***************************************************************************)
(* C20: the coercion of rating, response_time and resolved (ReconcileSpec).*)
(***************************************************************************)

EmptyOrUnparseable(cell) == cell.kind \in {"nan", "text"}

\* Every row of the file fills the columns the table declares NOT NULL.
RequiredCellsFilled(file) ==
    \A k \in 1..Len(file.rows) :
        \A c \in {"user_id", "session_id", "timestamp", "query_text", "bot_response"} :
            file.rows[k][c].kind # "nan"

\* C20: a CSV row whose rating or response_time is empty or no number is
\* stored with that field absent, a row whose resolved is empty or no
\* number is stored with resolved true, and such a row does not make the
\* reconciliation fail.
C20_CoercionOfBadCells ==
    (Reconciled /\ HasDataRows(csv) /\ RequiredCellsFilled(csv))
        => /\ last.ok
           /\ \A id \in CsvIds(csv) :
                 LET c == LastRowWithId(csv, id)
                 IN /\ EmptyOrUnparseable(c.rating) => store[id].rating = {}
                    /\ EmptyOrUnparseable(c.response_time) => store[id].response_time = {}
                    /\ EmptyOrUnparseable(c.resolved) => store[id].resolved = {1}

(***************************************************************************)
(* C21, C24, C30: the export and the two-way synchronisation (ExportSpec). *)
(***************************************************************************)

\* What a CSV cell holds for the value v of a nullable column: nothing for
\* an absent value, else the value.
CellHolds(cell, v) ==
    IF v = {} THEN cell.kind = "nan"
    ELSE IF cell.kind = "num" THEN cell.val = ValueOf(v)
    ELSE cell.kind = "text" /\ cell.text = ValueOf(v)

\* The CSV row c is the row r of the table under id.
CsvRowIs(c, id, r) ==
    /\ c.id = id
    /\ \A col \in {"user_id", "session_id", "timestamp", "query_text", "bot_response"} :
          c[col].kind = "text" /\ c[col].text = r[col]
    /\ \A col \in {"intent", "resolved", "rating", "response_time", "channel", "language"} :
          CellHolds(c[col], r[col])

\* C21: after sync_both_ways has returned True the CSV file holds exactly
\* the rows of the table: one row for each id of the table, with the
\* values of the table's row, the ids ascending.
C21_CsvHoldsStoreRows ==
    (last.op = "sync_both_ways" /\ last.ok)
        => /\ csv.kind = "rows"
           /\ Len(csv.rows) = Cardinality(DOMAIN store)
           /\ CsvIds(csv) = DOMAIN store
           /\ \A k \in 1..Len(csv.rows) : CsvRowIs(csv.rows[k], csv.rows[k].id, store[csv.rows[k].id])
           /\ \A j, k \in 1..Len(csv.rows) : j < k => csv.rows[j].id < csv.rows[k].id

\* sync_both_ways returned True and left a CSV file of two rows, one of
\* them with nothing for the rating.
C21_Witness ==
    /\ last.op = "sync_both_ways" /\ last.ok
    /\ csv.kind = "rows" /\ Len(csv.rows) = 2
    /\ DOMAIN store = {1, 2}
    /\ \E k \in 1..2 : csv.rows[k].rating.kind = "nan"

(***************************************************************************)
(* C22: two /chat requests at once (ChatsSpec).                            *)
(***************************************************************************)

Answered200(t) == inflight[t].pc = "done" /\ inflight[t].status = 200

\* The row under the id of the answer to thread t holds the message of
\* its request and the reply and the intent of its answer.
OwnRow(t) ==
    /\ inflight[t].log_id \in DOMAIN store
    /\ store[inflight[t].log_id].query_text = inflight[t].req.message
    /\ store[inflight[t].log_id].bot_response = inflight[t].response
    /\ store[inflight[t].log_id].intent = {inflight[t].intent}

\* C22: when two /chat requests served concurrently have both been
\* answered 200, whatever the interleaving, the table holds two rows under
\* distinct ids, and each answer carries the id of the row that holds its
\* own message, reply and intent.
C22_ConcurrentChatsOwnRows ==
    (Answered200(1) /\ Answered200(2))
        => /\ inflight[1].log_id # inflight[2].log_id
           /\ Cardinality(DOMAIN store) = 2
           /\ OwnRow(1) /\ OwnRow(2)

\* Both requests were answered 200, with different messages, the request
\* of thread 2 having committed first.
C22_Witness ==
    /\ Answered200(1) /\ Answered200(2)
    /\ inflight[1].req.message # inflight[2].req.message
    /\ inflight[2].log_id < inflight[1].log_id

(***************************************************************************)
(* C23: the ticks of AutoSync.start_monitoring (MonitorSpec).              *)
(***************************************************************************)

\* The step is the hash comparison of a tick, and the reconciliation of a
\* tick.
ComparesHash == as_pc = "check" /\ as_pc' \in {"sync", "sleep"}
Reconciles == as_pc = "sync" /\ as_pc' = "sleep"

\* C23: in a tick a reconciliation is attempted exactly when the hash of
\* the CSV differs from last_hash; last_hash becomes the hash of the tick
\* when the reconciliation succeeds and stays as it was when it fails or
\* when none is attempted; so a failed attempt is made again on every
\* tick that finds the hash still different.
C23_TickReconcilesIffChanged ==
    [][/\ ComparesHash => (as_pc' = "sync" <=> get_file_hash(csv) # last_hash)
       /\ ComparesHash => last_hash' = last_hash
       /\ Reconciles
             => /\ last'.op = "auto_sync"
                /\ last_hash' = (IF last'.ok THEN current_hash ELSE last_hash)
       /\ (as_pc \in {"check", "sync", "sleep"} /\ ~Reconciles) => last_hash' = last_hash]_vars

\* The reconciliation of an earlier tick failed, and this tick is about
\* to attempt it again.
C23_Witness ==
    /\ as_pc = "sync"
    /\ last.op = "auto_sync" /\ ~last.ok
    /\ current_hash # last_hash
    /\ current_hash = get_file_hash(csv)

\* C24: when the CSV -> table step of sync_both_ways fails, the export is
\* not run: the CSV file is left as it was, neither created nor
\* overwritten, and sync_both_ways returns False.
C24_NoExportAfterFailure ==
    [][(last'.op = "sync_both_ways" /\ ~last'.csv_success)
          => (csv' = csv /\ ~last'.ok)]_vars

\* The ids of the rows /chat committed after the reconciliation had read
\* the ids of the table (for a CSV without rows: after it had cleared it).
LateIds(fl) ==
    {fl[t].log_id : t \in {u \in Threads : fl[u].pc \in {"committed", "done"}
                                            /\ "seen" \in DOMAIN fl[u]
                                            /\ fl[u].seen \in {"planned", "probed", "done"}}}

\* A CSV that csv_to_db, run alone, reads and stores.
Storable(file) ==
    /\ Exists(file)
    /\ ReadCsv(file).ok
    /\ ApplyRows(EmptyTable, ReadCsv(file).rows).ok

BothFinished ==
    /\ job.pc = "done"
    /\ \A t \in Threads : inflight[t].pc \in {"idle", "done"}

\* C25: once a reconciliation and the /chat requests beside it have
\* finished, the ids of the table are exactly the ids of the CSV plus the
\* ids of the rows /chat committed after the reconciliation read the
\* existing ids.
C25_IdsAfterReconcileBesideChat ==
    (BothFinished /\ Storable(csv))
        => DOMAIN store = CsvIds(csv) \cup LateIds(inflight)

\* C26: when a tick of AutoSync reconciled successfully, last_hash is the
\* hash of the content that the reconciliation read and applied.
C26_LastHashIsOfContentRead ==
    [][(Reconciles /\ last'.op = "auto_sync" /\ last'.ok)
          => last_hash' = get_file_hash(csv)]_vars

\* The table that a successful reconciliation of the file leaves.
TableOfCsv(file) == ApplyRows(EmptyTable, ReadCsv(file).rows).table

\* C27: with the AutoSync loop running fairly and no other writer of the
\* table, when the CSV is changed while the loop runs to a content that
\* exists, parses and can be stored, and then stays as it is, the table
\* eventually holds the rows of the CSV and keeps holding them.
C27_EventuallyReflectsCsv ==
    \A f \in {g \in PolledFiles : Storable(g)} :
        (<>(as_pc # "new" /\ csv # f) /\ <>[](csv = f))
            => <>[](store = TableOfCsv(f))

\* C28: after start_monitoring took the start-up hash, as long as the CSV
\* has not been changed the loop starts no reconciliation and leaves the
\* table as it is, also when the table differs from the CSV.
C28_NoReconcileBeforeChange ==
    [][(as_pc # "new" /\ last.op = "none")
          => /\ last_hash = get_file_hash(csv)
             /\ as_pc' # "sync"
             /\ store' = store]_vars

\* The loop has compared the hashes and gone to sleep over a table that
\* differs from what the unchanged CSV would give.
C28_Witness ==
    /\ as_pc = "sleep"
    /\ last.op = "none"
    /\ Storable(csv)
    /\ store # TableOfCsv(csv)

\* C29: the log_id that /chat answers with is not an id that an earlier
\* interaction had: right after a delete removed rows, the next /chat does
\* not get the id of a removed row.
C29_IdsNeverReused ==
    [][(/\ last.op \in {"delete", "delete_all"}
        /\ last.ok
        /\ last'.op = "chat"
        /\ last'.status = 200)
          => last'.log_id \notin last.ids]_vars

\* C30: a csv_to_db that follows a successful db_to_csv leaves the table
\* as it was: the same ids and the same value in every column.
C30_ExportThenImportKeepsTable ==
    [][(/\ last.op = "db_to_csv"
        /\ last.ok
        /\ last'.op = "csv_to_db")
          => store' = store]_vars

====
